---------------------------- MODULE Spec2Model ----------------------------
(***************************************************************************)
(* A model of SocialNetwork.py: opinion diffusion over a dynamic social    *)
(* graph.  The state is the networkx graph (its node set and its edges),   *)
(* the raw and the normalized weight matrices, the opinion vectors, the    *)
(* mask tensor, the archetypes and the resistances, together with the      *)
(* position of a running step().                                           *)
(*                                                                         *)
(* Numbers.  Opinions are the integers +1 and -1 and a hidden mask entry   *)
(* is 0.  Every fraction of the program (a probability, a raw weight, a    *)
(* resistance, the unfriend threshold) is kept as an integer number of     *)
(* units of 1/Scale, so 1.0 is Scale units; a draw of rnd.random(), a      *)
(* float of [0,1), is a number of 0..Scale-1.  A normalized weight is the  *)
(* pair <<numerator, denominator>> the code divides; a denominator of 0    *)
(* is the division by zero (numpy's inf or nan).                           *)
(***************************************************************************)
EXTENDS Integers, Sequences, FiniteSets, TLC

\* ------------------------------------------------------------ bounds
\* The largest node count n of a network.
MaxN == 3
\* The largest opinion dimensionality.
MaxDim == 1
\* Fractions are multiples of 1/Scale.
Scale == 2
\* The number of API calls (connect, disconnect, reveal, hide, step) made
\* on one network.
MaxCalls == 2
\* The most edges the Erdos-Renyi generator returns.
MaxRandomEdges == 1

\* ------------------------------------------------------------ state
VARIABLES
    props,                \* self._properties: the configuration entries
    nodes,                \* self._graph: its node set
    edges,                \* self._graph: its edges, as ordered pairs
    weights,              \* self._properties['weights'][v][u]
    normalized_weights,   \* self._properties['normalized_weights'][v][u]
    attribute_space,      \* self._properties['attribute_space'][i][k]
    masks,                \* self._properties['masks'][i][j][k]
    types,                \* self._properties['types']
    resistance,           \* self._properties['resistance'][i]
    pc,                   \* where the program is: idle, inside step(), or raised
    calls                 \* API calls made so far

vars == << props, nodes, edges, weights, normalized_weights, attribute_space,
           masks, types, resistance, pc, calls >>

\* ------------------------------------------------------------ helpers
Min(S) == CHOOSE x \in S : \A y \in S : x <= y

Abs(x) == IF x < 0 THEN -x ELSE x

\* range( n )
Range(n) == 0 .. (n - 1)

\* A draw of rnd.random().
Draws == Range(Scale)

\* The archetype tags the update and the reward rules know.
FamilyA == { "R", "E", "SC" }
FamilyB == { "DA", "RWC", "SR" }

\* The admissible topology keywords.
TOPOLOGIES == { "", "complete", "cycle", "random", "scale free", "small world", "star" }

\* The default of props['saturation'], in tenths.
SaturationTenths == 1

\* The number of candidates network_effects draws for each node.
NumCandidates == 5

\* np.zeros( ( n, n ) )
ZeroMatrix(n) == [ v \in Range(n) |-> [ u \in Range(n) |-> 0 ] ]

\* The normalized matrix holds quotients: 0. is 0/1.
ZeroFrac == << 0, 1 >>
ZeroFracMatrix(n) == [ v \in Range(n) |-> [ u \in Range(n) |-> ZeroFrac ] ]

\* ------------------------------------------------------------ graph store
\* networkx add_edge: an undirected Graph keeps an edge under both
\* orientations; a DiGraph keeps the one given.
AddEdge(E, directed, a, b) ==
    IF directed THEN E \cup { << a, b >> } ELSE E \cup { << a, b >>, << b, a >> }

\* networkx remove_edge raises when the edge is absent.
HasEdge(E, a, b) == << a, b >> \in E

RemoveEdge(E, directed, a, b) ==
    IF directed THEN E \ { << a, b >> } ELSE E \ { << a, b >>, << b, a >> }

\* get_neighbors( u ): the nodes that influence u.
GetNeighbors(E, directed, u) ==
    IF ~directed THEN { e[2] : e \in { x \in E : x[1] = u } }
    ELSE { e[1] : e \in { x \in E : x[2] = u } }

\* ------------------------------------------------------------ weights
RECURSIVE SumColumn(_, _, _)
\* weights.sum(axis=0)[u], over the rows 0..m-1
SumColumn(W, u, m) == IF m = 0 THEN 0 ELSE W[m - 1][u] + SumColumn(W, u, m - 1)

\* update_weight_column( u ) on the network s.
UpdateWeightColumn(p, s, u) ==
    LET total == SumColumn(s.weights, u, p.n)
        nbrs  == GetNeighbors(s.edges, p.directed, u)
    IN  [ s EXCEPT !.normalized_weights =
            [ v \in Range(p.n) |->
                [ s.normalized_weights[v] EXCEPT ![u] =
                    IF v = u THEN << Scale, total >>
                    ELSE IF v \in nbrs THEN << s.weights[v][u], total >>
                    ELSE ZeroFrac ] ] ]

\* The raw weight a new edge gets: a draw when props['weight'] is 'random',
\* else the configured constant.  props['weight'] is kept as a record: the
\* string 'random', or a number of units.
WeightDraws(p) == IF p.weight.random THEN Draws ELSE { p.weight.value }

\* ------------------------------------------------------------ connect, disconnect
\* A network s is the record of what connect and disconnect change: edges,
\* weights, normalized_weights, masks, and raised (an exception left the call).

\* A connect that does not return when u == v.
ConnectWithSelfLoop(p, A, s, u, v, w1, w2) ==
    UpdateWeightColumn(p, UpdateWeightColumn(p,
        [ s EXCEPT !.edges = IF p.symmetric
                             THEN AddEdge(AddEdge(s.edges, p.directed, u, v), p.directed, v, u)
                             ELSE AddEdge(s.edges, p.directed, u, v),
                   !.weights[u][v] = w1,
                   !.masks[v][u] = A[u] ], u), v)

\* connect( u, v ), with w1 and w2 the weights drawn for u->v and for v->u.
\* A is the attribute space.
Connect(p, A, s, u, v, w1, w2) ==
    IF u = v THEN s
    ELSE
      LET s1 == [ s EXCEPT !.edges = AddEdge(s.edges, p.directed, u, v),
                           !.weights[u][v] = w1 ]
      IN  IF p.visibility = "random"
          THEN \* self._graph.graph['k'] is no key of the graph: KeyError
               [ s1 EXCEPT !.raised = TRUE ]
          ELSE
            LET s2 == IF p.visibility = "visible"
                      THEN [ s1 EXCEPT !.masks[v][u] = A[u] ]
                      ELSE s1
                s3 == IF p.symmetric
                      THEN [ s2 EXCEPT !.edges = AddEdge(s2.edges, p.directed, v, u),
                                       !.weights[v][u] = w2,
                                       !.masks[u][v] =
                                           IF p.visibility = "visible" THEN A[v] ELSE @ ]
                      ELSE s2
            IN  UpdateWeightColumn(p, UpdateWeightColumn(p, s3, u), v)

\* A disconnect that zeroes the weights and leaves the normalized columns.
DisconnectKeepsColumns(p, s, u, v, draw) ==
    IF draw < p.unfriend THEN s
    ELSE [ s EXCEPT !.edges = RemoveEdge(IF p.symmetric
                                         THEN RemoveEdge(s.edges, p.directed, v, u)
                                         ELSE s.edges, p.directed, u, v),
                    !.masks[u][v] = [ k \in Range(p.dimensions) |-> 0 ],
                    !.masks[v][u] = [ k \in Range(p.dimensions) |-> 0 ],
                    !.weights[u][v] = 0,
                    !.weights[v][u] = 0 ]

\* disconnect( u, v ), with draw the value of rnd.random() at its gate.
Disconnect(p, s, u, v, draw) ==
    IF draw < p.unfriend THEN s
    ELSE
      LET K  == p.dimensions
          s1 == IF HasEdge(s.edges, u, v)
                THEN [ s EXCEPT !.edges = RemoveEdge(s.edges, p.directed, u, v),
                                !.masks = [ i \in Range(p.n) |-> [ j \in Range(p.n) |->
                                    IF << i, j >> \in { << u, v >>, << v, u >> }
                                    THEN [ k \in Range(K) |-> 0 ]
                                    ELSE s.masks[i][j] ] ] ]
                ELSE s
          s2 == IF p.symmetric /\ HasEdge(s1.edges, v, u)
                THEN [ s1 EXCEPT !.edges = RemoveEdge(s1.edges, p.directed, v, u) ]
                ELSE s1
          s3 == [ s2 EXCEPT !.weights = [ x \in Range(p.n) |-> [ y \in Range(p.n) |->
                                IF << x, y >> \in { << u, v >>, << v, u >> }
                                THEN 0 ELSE s2.weights[x][y] ] ] ]
      IN  UpdateWeightColumn(p, UpdateWeightColumn(p, s3, u), v)

\* reveal( u, v, k )
Reveal(M, u, v, k) == [ M EXCEPT ![v][u][k] = 1 ]

\* A hide that flips the entry between hidden and shown.
HideToggle(M, u, v, k) == [ M EXCEPT ![v][u][k] = IF @ = 0 THEN 1 ELSE 0 ]

\* hide( u, v, k )
Hide(M, u, v, k) == [ M EXCEPT ![v][u][k] = 0 ]

\* ------------------------------------------------------------ averages and rewards
RECURSIVE SumMasks(_, _, _, _)
\* masks[u].sum(axis=0)[k], over the rows 0..m-1
SumMasks(M, u, k, m) == IF m = 0 THEN 0 ELSE M[u][m - 1][k] + SumMasks(M, u, k, m - 1)

RECURSIVE SumMasksOver(_, _, _, _)
\* The sum of u's mask rows over the nodes of S only.
SumMasksOver(M, u, k, S) ==
    IF S = {} THEN 0
    ELSE LET v == CHOOSE x \in S : TRUE
         IN  M[u][v][k] + SumMasksOver(M, u, k, S \ { v })

\* An average over the neighbours alone: u's own row is left out of the sum
\* and of the count.
NeighborsOnlyAverage(p, E, M, u) ==
    LET nbrs == GetNeighbors(E, p.directed, u)
    IN  [ k \in Range(p.dimensions) |->
            << SumMasksOver(M, u, k, nbrs),
               IF nbrs = {} THEN 1 ELSE Cardinality(nbrs) >> ]

\* get_local_average( u ), unweighted: for every coordinate the quotient
\* << sum of u's mask rows, number of neighbours + 1 >>.
GetLocalAverage(p, E, M, u) ==
    [ k \in Range(p.dimensions) |->
        << SumMasks(M, u, k, p.n), Cardinality(GetNeighbors(E, p.directed, u)) + 1 >> ]

\* A reward whose SC / SR branch leaves out the abs: 1 - ( dist - 0.5 ) * 2.
RewardWithoutAbs(p, A, M, T, u, v) ==
    LET seen == { k \in Range(p.dimensions) : M[u][v][k] # 0 }
        cnt  == Cardinality(seen)
        mism == Cardinality({ k \in seen : A[u][k] # M[u][v][k] })
    IN  IF seen = {} THEN [ none |-> FALSE, num |-> 0, den |-> 1 ]
        ELSE IF T[u] \in { "R", "DA" }
             THEN [ none |-> FALSE, num |-> cnt - mism, den |-> cnt ]
        ELSE IF T[u] \in { "E", "RWC" }
             THEN [ none |-> FALSE, num |-> mism, den |-> cnt ]
        ELSE [ none |-> FALSE, num |-> 2 * cnt - 2 * mism, den |-> cnt ]

\* get_reward_for_neighbor( u, v ): the quotient num/den, or none when the
\* function falls off its end and returns None.
GetRewardForNeighbor(p, A, M, T, u, v) ==
    LET seen == { k \in Range(p.dimensions) : M[u][v][k] # 0 }
        cnt  == Cardinality(seen)
        mism == Cardinality({ k \in seen : A[u][k] # M[u][v][k] })
    IN  IF seen = {} THEN [ none |-> FALSE, num |-> 0, den |-> 1 ]
        ELSE IF T[u] \in { "R", "DA" }
             THEN [ none |-> FALSE, num |-> cnt - mism, den |-> cnt ]
        ELSE IF T[u] \in { "E", "RWC" }
             THEN [ none |-> FALSE, num |-> mism, den |-> cnt ]
        ELSE IF T[u] \in { "SC", "SR" }
             THEN [ none |-> FALSE, num |-> cnt - Abs(2 * mism - cnt), den |-> cnt ]
        ELSE [ none |-> TRUE, num |-> 0, den |-> 1 ]

RECURSIVE SumRewards(_, _, _, _, _, _)
\* The sum of the rewards of u for the nodes of S, as a quotient.
SumRewards(p, A, M, T, u, S) ==
    IF S = {} THEN << 0, 1 >>
    ELSE LET v    == CHOOSE x \in S : TRUE
             r    == GetRewardForNeighbor(p, A, M, T, u, v)
             rest == SumRewards(p, A, M, T, u, S \ { v })
         IN  << rest[1] * r.den + r.num * rest[2], rest[2] * r.den >>

\* get_reward_for_node( u ): 0. without neighbours, else the mean of the
\* rewards for the neighbours, as a quotient.
GetRewardForNode(p, E, A, M, T, u) ==
    LET nbrs == GetNeighbors(E, p.directed, u)
    IN  IF nbrs = {} THEN << 0, 1 >>
        ELSE LET total == SumRewards(p, A, M, T, u, nbrs)
             IN  << total[1], total[2] * Cardinality(nbrs) >>

\* r < props['unfriend_threshold']
BelowThreshold(p, r) == r.num * Scale < p.unfriend_threshold * r.den

\* ------------------------------------------------------------ step
\* The pairs that would reach the draw if the sign of the opinion against
\* the local average were not tested.
EligibleIgnoringSign(p, E, M, A, T, R) ==
    { c \in Range(p.n) \X Range(p.dimensions) :
        LET avg == GetLocalAverage(p, E, M, c[1])[c[2]]
        IN  /\ T[c[1]] \in FamilyA \cup FamilyB
            /\ Abs(avg[1]) * Scale > R[c[1]] * avg[2] }

\* The pairs that would reach the draw if the resistance were not compared.
EligibleWithoutResistance(p, E, M, A, T, R) ==
    { c \in Range(p.n) \X Range(p.dimensions) :
        LET avg == GetLocalAverage(p, E, M, c[1])[c[2]]
        IN  \/ T[c[1]] \in FamilyA /\ ~ ( A[c[1]][c[2]] * avg[1] > 0 )
            \/ T[c[1]] \in FamilyB /\ ~ ( A[c[1]][c[2]] * avg[1] < 0 ) }

\* update_attributes: the ( node, coordinate ) pairs that reach the draw
\* against props['update'].
UpdateEligible(p, E, M, A, T, R) ==
    { c \in Range(p.n) \X Range(p.dimensions) :
        LET i   == c[1]
            k   == c[2]
            avg == GetLocalAverage(p, E, M, i)[k]
            exceeds == Abs(avg[1]) * Scale > R[i] * avg[2]
        IN  \/ T[i] \in FamilyA /\ ~ ( A[i][k] * avg[1] > 0 ) /\ exceeds
            \/ T[i] \in FamilyB /\ ~ ( A[i][k] * avg[1] < 0 ) /\ exceeds }

\* update_attributes: how many times the sweep appends [ i, k ] to changes
\* when every draw against props['update'] passes: once for each of the two
\* archetype tests that lets the pair through.
Appends(p, E, M, A, T, R, i, k) ==
    LET avg == GetLocalAverage(p, E, M, i)[k]
        exceeds == Abs(avg[1]) * Scale > R[i] * avg[2]
    IN  ( IF T[i] \in FamilyA /\ ~ ( A[i][k] * avg[1] > 0 ) /\ exceeds THEN 1 ELSE 0 )
      + ( IF T[i] \in FamilyB /\ ~ ( A[i][k] * avg[1] < 0 ) /\ exceeds THEN 1 ELSE 0 )

\* Collected changes that blank the coordinate instead of negating it.
BlankChanges(p, A, changes) ==
    [ i \in Range(p.n) |-> [ k \in Range(p.dimensions) |->
        IF << i, k >> \in changes THEN 0 ELSE A[i][k] ] ]

\* The attribute space after the collected changes are applied.
ApplyChanges(p, A, changes) ==
    [ i \in Range(p.n) |-> [ k \in Range(p.dimensions) |->
        IF << i, k >> \in changes THEN - A[i][k] ELSE A[i][k] ] ]

\* The orders in which a sweep can visit the nodes in S.
Orders(S) ==
    { o \in [ 1 .. Cardinality(S) -> S ] :
        \A a, b \in DOMAIN o : a # b => o[a] # o[b] }

RECURSIVE SweepChanges(_, _, _, _, _, _, _, _)
\* update_attributes: the list changes after a sweep that visits the nodes
\* in the order given, where pass holds the pairs whose draw against
\* props['update'] succeeds.  Nothing is written during the sweep.
SweepChanges(p, E, M, A, T, R, order, pass) ==
    IF order = << >> THEN {}
    ELSE { c \in UpdateEligible(p, E, M, A, T, R) \cap pass : c[1] = Head(order) }
           \cup SweepChanges(p, E, M, A, T, R, Tail(order), pass)

RECURSIVE CascadingUpdate(_, _, _, _, _, _, _, _)
\* A sweep that applies the flips of a node at once and lets the nodes
\* visited later see them in their mask rows.
CascadingUpdate(p, E, M, A, T, R, order, pass) ==
    IF order = << >> THEN A
    ELSE
      LET i  == Head(order)
          ch == { c \in UpdateEligible(p, E, M, A, T, R) \cap pass : c[1] = i }
          A1 == ApplyChanges(p, A, ch)
          M1 == [ j \in Range(p.n) |-> [ x \in Range(p.n) |-> [ k \in Range(p.dimensions) |->
                    IF << x, k >> \in ch THEN - M[j][x][k] ELSE M[j][x][k] ] ] ]
      IN  CascadingUpdate(p, E, M1, A1, T, R, Tail(order), pass)

\* update_attributes with the nodes visited in the order given: the sweep,
\* then the loop that applies the collected changes.
UpdateAttributesIn(p, E, M, A, T, R, order, pass) ==
    ApplyChanges(p, A, SweepChanges(p, E, M, A, T, R, order, pass))

RECURSIVE ActOn(_, _, _, _, _, _, _, _)
\* act's inner loop for node i over the neighbours todo; p1 are the draws
\* of act and p2 the draws of disconnect.
ActOn(p, A, T, s, i, todo, p1, p2) ==
    IF todo = {} \/ s.raised THEN s
    ELSE
      LET nbr == Min(todo)
          r   == GetRewardForNeighbor(p, A, s.masks, T, i, nbr)
          s1  == IF r.none THEN [ s EXCEPT !.raised = TRUE ]
                 ELSE IF BelowThreshold(p, r) /\ p1[nbr] < p.unfriend
                      THEN Disconnect(p, s, i, nbr, p2[nbr])
                      ELSE s
      IN  ActOn(p, A, T, s1, i, todo \ { nbr }, p1, p2)

RECURSIVE NetworkEffectsOn(_, _, _, _, _, _, _)
\* network_effects' inner loop for node i over todo, the candidates that
\* passed the draw against props['friend']; w1 and w2 are the weights
\* connect draws.
NetworkEffectsOn(p, A, s, i, todo, w1, w2) ==
    IF todo = {} \/ s.raised THEN s
    ELSE
      LET c == Min(todo)
      IN  NetworkEffectsOn(p, A, Connect(p, A, s, c, i, w1[c], w2[c]), i,
                           todo \ { c }, w1, w2)

\* set( [ int( rnd.random() * n ) for j in range( 5 ) ] )
CandidateSets(n) ==
    { C \in SUBSET Range(n) : C # {} /\ Cardinality(C) <= NumCandidates }

\* The candidates of one node that pass the draw against props['friend'],
\* over every candidate set and every draw.
FriendSets(p) ==
    UNION { { { c \in C : pf[c] < p.friend } : pf \in [ C -> Draws ] }
            : C \in CandidateSets(p.n) }

\* The weights connect draws for the candidates it connects; the weight of
\* the mirrored edge is drawn only in a symmetric network.
MirrorDraws(p) == IF p.symmetric THEN WeightDraws(p) ELSE { 0 }

\* ------------------------------------------------------------ construction
\* A validation that keeps the directed entry as it was given.
KeepGiven(given) == given

\* _validate_input: the defaults, and symmetric forces directed.
ValidateInput(given) ==
    [ given EXCEPT !.directed = IF given.symmetric THEN TRUE ELSE given.directed ]

\* The edges each library generator can return for n nodes, as the pairs
\* ( e[0], e[1] ) its edges() yields.
CompleteEdges(n) == { e \in Range(n) \X Range(n) : e[1] < e[2] }

CycleEdges(n) ==
    IF n = 1 THEN { << 0, 0 >> }
    ELSE { e \in Range(n) \X Range(n) :
             e[1] < e[2] /\ ( e[2] = e[1] + 1 \/ ( e[1] = 0 /\ e[2] = n - 1 ) ) }

\* nx.star_graph( n ): a centre 0 and the n outer nodes 1..n.
StarEdges(n) == { << 0, i >> : i \in 1 .. n }

\* nx.erdos_renyi_graph: any simple graph on 0..n-1, directed or not.
RandomEdgeSets(n, directed) ==
    LET pairs == IF directed THEN { e \in Range(n) \X Range(n) : e[1] # e[2] }
                 ELSE CompleteEdges(n)
    IN  { X \in SUBSET pairs : Cardinality(X) <= MaxRandomEdges }

\* nx.scale_free_graph: grown from the cycle 0->1->2->0 while it has fewer
\* than n nodes; every later node arrives on an edge, and meanwhile any pair
\* of nodes, a node with itself included, may get an edge.
ScaleFreeEdgeSets(n) ==
    LET seed  == { << 0, 1 >>, << 1, 2 >>, << 2, 0 >> }
        pairs == Range(n) \X Range(n)
    IN  IF n <= 3 THEN { seed }
        ELSE { seed \cup X : X \in { Y \in SUBSET pairs :
                 /\ Cardinality(Y) <= MaxRandomEdges
                 /\ \A m \in 3 .. (n - 1) : \E e \in Y : m \in { e[1], e[2] } } }

\* nx.watts_strogatz_graph( n, k, rewire ) with k = int( saturation * n ): a
\* ring in which every node is joined to its k / 2 nearest on each side.
SmallWorldEdges(n) ==
    LET k == ( SaturationTenths * n ) \div 10
    IN  { e \in Range(n) \X Range(n) :
            \E j \in 1 .. ( k \div 2 ) : e[2] = ( e[1] + j ) % n }

GeneratedEdgeSets(p) ==
    CASE p.topology = "random"      -> RandomEdgeSets(p.n, p.directed)
      [] p.topology = "scale free"  -> ScaleFreeEdgeSets(p.n)
      [] p.topology = "small world" -> { SmallWorldEdges(p.n) }
      [] p.topology = "star"        -> { StarEdges(p.n) }
      [] p.topology = "complete"    -> { CompleteEdges(p.n) }
      [] p.topology = "cycle"       -> { CycleEdges(p.n) }
      [] OTHER                      -> { {} }

RECURSIVE AddEdges(_, _, _)
\* for e in edges: add_edge( e[0], e[1] ), and add_edge( e[1], e[0] ) when symmetric
AddEdges(E, p, todo) ==
    IF todo = {} THEN E
    ELSE LET e  == CHOOSE x \in todo : TRUE
             E1 == AddEdge(E, p.directed, e[1], e[2])
             E2 == IF p.symmetric THEN AddEdge(E1, p.directed, e[2], e[1]) ELSE E1
         IN  AddEdges(E2, p, todo \ { e })

\* generate_edges: the graphs it can build, each [nodes, edges].  add_edge
\* adds an endpoint the graph does not hold yet.
GenerateEdges(p) ==
    { [ nodes |-> Range(p.n) \cup { e[1] : e \in gen } \cup { e[2] : e \in gen },
        edges |-> AddEdges({}, p, gen) ] : gen \in GeneratedEdgeSets(p) }

RECURSIVE InitializeEdgeWeightsFrom(_, _, _, _)
\* The loop of initialize_edge_weights from node u on: the set of outcomes
\* [weights, normalized_weights, raised].  An index outside the n x n
\* matrices raises IndexError and ends the loop.
InitializeEdgeWeightsFrom(p, g, s, u) ==
    IF u \notin g.nodes THEN { s }
    ELSE
      LET nbrs == GetNeighbors(g.edges, p.directed, u)
      IN  IF u >= p.n \/ \E v \in nbrs : v >= p.n
          THEN { [ s EXCEPT !.raised = TRUE ] }
          ELSE
            LET todo == { v \in nbrs : ~ ( s.weights[v][u] > 0 ) }
            IN  UNION {
                  LET W1 == [ x \in Range(p.n) |-> [ y \in Range(p.n) |->
                                IF y = u /\ x \in todo THEN f[x]
                                ELSE IF x = u /\ y \in todo /\ ~p.directed THEN f[y]
                                ELSE s.weights[x][y] ] ]
                      W2 == [ W1 EXCEPT ![u][u] = Scale ]
                      s1 == UpdateWeightColumn(p,
                              [ edges |-> g.edges, weights |-> W2,
                                normalized_weights |-> s.normalized_weights ], u)
                  IN  InitializeEdgeWeightsFrom(p, g,
                        [ weights |-> W2,
                          normalized_weights |-> s1.normalized_weights,
                          raised |-> FALSE ], u + 1)
                  : f \in [ todo -> WeightDraws(p) ] }

\* initialize_edge_weights
InitializeEdgeWeights(p, g) ==
    InitializeEdgeWeightsFrom(p, g,
        [ weights |-> ZeroMatrix(p.n), normalized_weights |-> ZeroFracMatrix(p.n),
          raised |-> FALSE ], 0)

\* initialize_attribute_space: every coordinate is rnd.choice( [ -1., 1. ] )
AttributeSpaces(p) == [ Range(p.n) -> [ Range(p.dimensions) -> { -1, 1 } ] ]

\* initialize_masks: the mask tensors it can produce.  For a node i and a
\* node j of get_neighbors( i ) it writes masks[j][i].
InitializeMasks(p, E, A) ==
    LET written == { c \in Range(p.n) \X Range(p.n) \X Range(p.dimensions) :
                       c[1] \in GetNeighbors(E, p.directed, c[2]) }
        hidden  == IF p.visibility = "random" THEN SUBSET written ELSE { {} }
    IN  { [ j \in Range(p.n) |-> [ i \in Range(p.n) |-> [ k \in Range(p.dimensions) |->
              IF << j, i, k >> \in written /\ p.visibility \in { "random", "visible" }
              THEN IF << j, i, k >> \in h THEN 0 ELSE A[i][k]
              ELSE IF j = i THEN A[i][k] ELSE 0 ] ] ] : h \in hidden }

RECURSIVE SumNums(_, _, _)
\* The nodes the first j entries of type_dist get: sum of int( d[t] * n )
SumNums(d, n, j) ==
    IF j = 0 THEN 0 ELSE ( ( d[j].share * n ) \div Scale ) + SumNums(d, n, j - 1)

RECURSIVE SumShares(_, _)
SumShares(d, j) == IF j = 0 THEN 0 ELSE d[j].share + SumShares(d, j - 1)

\* mix_network's nums: the number of nodes of each entry of type_dist.  The
\* nodes the rounding leaves over go to min_t, the last entry whose number
\* is the smallest.
TypeCounts(d, n) ==
    LET num(j) == ( d[j].share * n ) \div Scale
        min_j  == CHOOSE j \in DOMAIN d :
                    /\ \A i \in DOMAIN d : num(j) <= num(i)
                    /\ \A i \in DOMAIN d : ( i > j ) => ( num(i) > num(j) )
        left   == n - SumNums(d, n, Len(d))
    IN  [ j \in DOMAIN d |-> IF j = min_j THEN num(j) + left ELSE num(j) ]

\* mix_network: the type vectors it can leave in props['types'], a shuffle of
\* the counted tags; the empty list when no type_dist is given or when its
\* proportions do not sum to 1.
MixNetwork(p) ==
    LET d == p.type_dist.dist
    IN  IF ~p.type_dist.given \/ SumShares(d, Len(d)) # Scale
        THEN { << >> }
        ELSE LET cnt == TypeCounts(d, p.n)
             IN  { f \in [ Range(p.n) -> { d[j].tag : j \in DOMAIN d } ] :
                     \A j \in DOMAIN d :
                        Cardinality({ i \in Range(p.n) : f[i] = d[j].tag }) = cnt[j] }

\* props['indexes_by_type'] as mix_network leaves it beside the type vector
\* T: no key at all when it returned early, else for every tag of type_dist
\* the indices i with T[i] = tag.
IndexesByType(p, T) ==
    IF DOMAIN T = {} THEN [ t \in {} |-> {} ]
    ELSE [ t \in { p.type_dist.dist[j].tag : j \in DOMAIN p.type_dist.dist } |->
             { i \in DOMAIN T : T[i] = t } ]

\* What never came to be when construction raised.
Unset == << >>

\* initialize_resistance, for the type vector T mix_network left: the
\* resistance vectors it can produce.  A float is given to every node with no
\* range check; 'random' draws one value per node; a mapping gives the nodes
\* of each archetype it names a draw or its float, and leaves them at 0 when
\* the float is outside [0,1].  A key of type_dist that indexes_by_type
\* does not hold raises KeyError: the vector is then Unset.
InitializeResistance(p, T) ==
    LET rp == p.resistance_param
    IN  CASE rp.kind = "scalar" -> { [ i \in Range(p.n) |-> rp.value ] }
          [] rp.kind = "random" -> [ Range(p.n) -> Draws ]
          [] rp.kind = "mapping" ->
               LET idx   == IndexesByType(p, T)
                   tags  == IF p.type_dist.given
                            THEN { p.type_dist.dist[j].tag : j \in DOMAIN p.type_dist.dist }
                            ELSE { "default" }
                   known == { j \in DOMAIN rp.by_type : rp.by_type[j].tag \in tags }
                   choices(i) ==
                     LET mine == { j \in known : rp.by_type[j].tag = T[i] }
                     IN  IF mine = {} THEN { 0 }
                         ELSE LET e == rp.by_type[CHOOSE j \in mine : TRUE]
                              IN  IF e.random THEN Draws
                                  ELSE IF e.value < 0 \/ e.value > Scale THEN { 0 }
                                  ELSE { e.value }
               IN  IF \E j \in known : rp.by_type[j].tag \notin DOMAIN idx
                   THEN { Unset }
                   ELSE { r \in [ Range(p.n) -> 0 .. Scale ] :
                            \A i \in Range(p.n) : r[i] \in choices(i) }
          [] OTHER -> { [ i \in Range(p.n) |-> 0 ] }

\* _build: the networks construction can end in.
Build(p) ==
    IF p.topology \notin TOPOLOGIES
    THEN \* self.log is no method of the class: AttributeError
         { [ nodes |-> {}, edges |-> {}, weights |-> Unset,
             normalized_weights |-> Unset, attribute_space |-> Unset,
             masks |-> Unset, types |-> Unset, resistance |-> Unset,
             raised |-> TRUE ] }
    ELSE UNION { UNION {
           IF w.raised
           THEN { [ nodes |-> g.nodes, edges |-> g.edges, weights |-> w.weights,
                    normalized_weights |-> w.normalized_weights,
                    attribute_space |-> Unset, masks |-> Unset, types |-> Unset,
                    resistance |-> Unset, raised |-> TRUE ] }
           ELSE UNION { UNION {
                  { [ nodes |-> g.nodes, edges |-> g.edges, weights |-> w.weights,
                      normalized_weights |-> w.normalized_weights,
                      attribute_space |-> A, masks |-> M, types |-> T,
                      resistance |-> r, raised |-> ( DOMAIN r = {} ) ] :
                    M \in InitializeMasks(p, g.edges, A),
                    r \in InitializeResistance(p, T) }
                  : T \in MixNetwork(p) } : A \in AttributeSpaces(p) }
           : w \in InitializeEdgeWeights(p, g) } : g \in GenerateEdges(p) }

\* ------------------------------------------------------------ configurations
\* props['type_dist']: absent, or the proportion of every archetype
OneType(t) == [ given |-> TRUE, dist |-> << [ tag |-> t, share |-> Scale ] >> ]
TwoTypes(t1, t2) ==
    [ given |-> TRUE, dist |-> << [ tag |-> t1, share |-> 1 ],
                                  [ tag |-> t2, share |-> Scale - 1 ] >> ]
NoTypeDist == [ given |-> FALSE, dist |-> << >> ]

\* props['resistance_param']: a float, 'random', or a mapping from archetypes
\* to a float or 'random'.  The record keeps the float in value and the
\* mapping in by_type.
ScalarResistance(r) == [ kind |-> "scalar", value |-> r, by_type |-> << >> ]
RandomResistance == [ kind |-> "random", value |-> 0, by_type |-> << >> ]
MappedResistance ==
    [ kind |-> "mapping", value |-> 0,
      by_type |-> << [ tag |-> "SC", random |-> FALSE, value |-> 1 ],
                     [ tag |-> "DA", random |-> TRUE, value |-> 0 ],
                     [ tag |-> "E", random |-> FALSE, value |-> Scale + 1 ],
                     [ tag |-> "default", random |-> FALSE, value |-> 1 ] >> ]

\* The properties dictionaries that vary the structure of the network.
StructureProps ==
    [ n : 1 .. MaxN, directed : BOOLEAN, symmetric : BOOLEAN,
      topology : TOPOLOGIES \cup { "ring" },
      dimensions : 1 .. MaxDim, visibility : { "visible" },
      weight : { [ random |-> FALSE, value |-> Scale ] },
      unfriend : { 1 }, friend : { 0 },
      update : { Scale }, unfriend_threshold : { Scale },
      type_dist : { OneType("R") }, resistance_param : { ScalarResistance(0) } ]

\* The properties dictionaries that vary the probabilities of rewiring.
GateProps ==
    [ n : 1 .. MaxN, directed : BOOLEAN, symmetric : BOOLEAN,
      topology : { "", "complete" },
      dimensions : 1 .. MaxDim, visibility : { "visible" },
      weight : { [ random |-> FALSE, value |-> Scale ] },
      unfriend : { 0, Scale }, friend : { 0, 1 },
      update : { Scale }, unfriend_threshold : { Scale },
      type_dist : { OneType("R") }, resistance_param : { ScalarResistance(0) } ]

\* The properties dictionaries that draw the masks at random.
RandomMaskProps ==
    [ n : 1 .. MaxN, directed : { TRUE }, symmetric : { FALSE },
      topology : { "", "cycle" },
      dimensions : 1 .. MaxDim, visibility : { "random" },
      weight : { [ random |-> FALSE, value |-> Scale ] },
      unfriend : { 1 }, friend : { 1 },
      update : { Scale }, unfriend_threshold : { Scale },
      type_dist : { OneType("R") }, resistance_param : { ScalarResistance(0) } ]

\* The properties dictionaries that draw the weights at random.
RandomWeightProps ==
    [ n : 1 .. MaxN, directed : BOOLEAN, symmetric : { FALSE },
      topology : { "cycle" },
      dimensions : 1 .. MaxDim, visibility : { "visible" },
      weight : { [ random |-> TRUE, value |-> 0 ] },
      unfriend : { 1 }, friend : { 0 },
      update : { Scale }, unfriend_threshold : { Scale },
      type_dist : { OneType("R") }, resistance_param : { ScalarResistance(0) } ]

\* The properties dictionaries that vary the archetypes and the resistance.
TypeProps ==
    [ n : { 2 }, directed : { FALSE }, symmetric : { FALSE },
      topology : { "complete" },
      dimensions : 1 .. MaxDim, visibility : { "visible" },
      weight : { [ random |-> FALSE, value |-> Scale ] },
      unfriend : { 1 }, friend : { 0 },
      update : { 1 }, unfriend_threshold : { 1 },
      type_dist : { NoTypeDist, TwoTypes("SC", "DA"), OneType("E") },
      resistance_param : { ScalarResistance(1), RandomResistance,
                           ScalarResistance(Scale + 1), MappedResistance } ]

\* The properties dictionaries of a symmetric network that draws its masks
\* at random.
SymmetricRandomMaskProps ==
    [ n : 1 .. MaxN, directed : { FALSE }, symmetric : { TRUE },
      topology : { "" },
      dimensions : 1 .. MaxDim, visibility : { "random" },
      weight : { [ random |-> FALSE, value |-> Scale ] },
      unfriend : { 1 }, friend : { 1 },
      update : { Scale }, unfriend_threshold : { Scale },
      type_dist : { OneType("R") }, resistance_param : { ScalarResistance(0) } ]

\* The properties dictionaries of complete networks that never rewire and
\* update with probability 0.5 or 1.0, for every archetype and one tag that
\* is no archetype.
UpdateRuleProps ==
    [ n : 2 .. MaxN, directed : { FALSE }, symmetric : { FALSE },
      topology : { "complete" },
      dimensions : 1 .. MaxDim, visibility : { "visible" },
      weight : { [ random |-> FALSE, value |-> Scale ] },
      unfriend : { 0 }, friend : { 0 },
      update : { 1, Scale }, unfriend_threshold : { Scale },
      type_dist : { OneType(t) : t \in FamilyA \cup FamilyB \cup { "X" } },
      resistance_param : { ScalarResistance(0), ScalarResistance(1) } ]

\* The fewest nodes with which a node has more than NumCandidates others.
RewireInNodes == NumCandidates + 2

\* The properties dictionaries of symmetric networks built without an edge,
\* which never unfriend and befriend with probability 0.0 or 1.0.
RewireInProps ==
    [ n : { RewireInNodes }, directed : { TRUE }, symmetric : { TRUE },
      topology : { "" },
      dimensions : { 1 }, visibility : { "visible" },
      weight : { [ random |-> FALSE, value |-> Scale ] },
      unfriend : { 0 }, friend : { 0, Scale },
      update : { Scale }, unfriend_threshold : { 0 },
      type_dist : { OneType("R") }, resistance_param : { ScalarResistance(0) } ]

GivenProps ==
    StructureProps \cup GateProps \cup RandomMaskProps \cup RandomWeightProps
        \cup TypeProps \cup SymmetricRandomMaskProps

\* The properties dictionaries with unfriend = 1.0, friend = 0.0 and
\* unfriend_threshold = 1.0.
RewireOutProps ==
    [ n : 2 .. MaxN, directed : BOOLEAN, symmetric : BOOLEAN,
      topology : { "complete", "cycle", "random" },
      dimensions : 1 .. MaxDim, visibility : { "visible" },
      weight : { [ random |-> FALSE, value |-> Scale ] },
      unfriend : { Scale }, friend : { 0 },
      update : { 0, Scale }, unfriend_threshold : { Scale },
      type_dist : { OneType("R"), OneType("E") },
      resistance_param : { ScalarResistance(0) } ]

\* The properties dictionaries of the four-node complete network: undirected,
\* one dimension, visible, update = 1.0, every node of archetype R, resistance 0.
CompleteFourProps ==
    [ n : { 4 }, directed : { FALSE }, symmetric : { FALSE },
      topology : { "complete" },
      dimensions : { 1 }, visibility : { "visible" },
      weight : { [ random |-> FALSE, value |-> Scale ] },
      unfriend : { 0, Scale }, friend : { 0 },
      update : { Scale }, unfriend_threshold : { Scale },
      type_dist : { OneType("R") }, resistance_param : { ScalarResistance(0) } ]

\* The properties dictionaries of two nodes with two opinion coordinates,
\* all of one archetype, for every archetype.
TwoCoordinateProps ==
    [ n : { 2 }, directed : { FALSE }, symmetric : { FALSE },
      topology : { "complete" },
      dimensions : { 2 }, visibility : { "visible" },
      weight : { [ random |-> FALSE, value |-> Scale ] },
      unfriend : { 1 }, friend : { 1 },
      update : { 1 }, unfriend_threshold : { 1 },
      type_dist : { OneType(t) : t \in FamilyA \cup FamilyB },
      resistance_param : { ScalarResistance(0) } ]

\* The opinions [ +1, -1, +1, -1 ] of the four nodes, and their negation.
AlternatingOpinions == [ i \in Range(4) |-> [ k \in Range(1) |-> IF i % 2 = 0 THEN 1 ELSE -1 ] ]
FlippedOpinions == [ i \in Range(4) |-> [ k \in Range(1) |-> - AlternatingOpinions[i][k] ] ]

\* ------------------------------------------------------------ the program
Idle == [ phase |-> "idle", i |-> 0 ]
Raised == [ phase |-> "error", i |-> 0 ]

\* The network of the current state.
Net == [ edges |-> edges, weights |-> weights,
         normalized_weights |-> normalized_weights, masks |-> masks,
         raised |-> FALSE ]

\* The state after the network became s.
SetNet(s) ==
    /\ edges' = s.edges
    /\ weights' = s.weights
    /\ normalized_weights' = s.normalized_weights
    /\ masks' = s.masks

\* __init__( props )
InitFrom(P) ==
    \E given \in P :
      \E b \in Build(ValidateInput(given)) :
        /\ props = ValidateInput(given)
        /\ nodes = b.nodes
        /\ edges = b.edges
        /\ weights = b.weights
        /\ normalized_weights = b.normalized_weights
        /\ attribute_space = b.attribute_space
        /\ masks = b.masks
        /\ types = b.types
        /\ resistance = b.resistance
        /\ pc = IF b.raised THEN Raised ELSE Idle
        /\ calls = 0

Init == InitFrom(GivenProps)

\* connect( u, v ) called from outside
ConnectCall(u, v) ==
    /\ pc.phase = "idle"
    /\ calls < MaxCalls
    /\ \E w1 \in WeightDraws(props), w2 \in WeightDraws(props) :
         LET s == Connect(props, attribute_space, Net, u, v, w1, w2)
         IN  /\ SetNet(s)
             /\ pc' = IF s.raised THEN Raised ELSE Idle
    /\ calls' = calls + 1
    /\ UNCHANGED << props, nodes, attribute_space, types, resistance >>

\* disconnect( u, v ) called from outside
DisconnectCall(u, v) ==
    /\ pc.phase = "idle"
    /\ calls < MaxCalls
    /\ \E draw \in Draws : SetNet(Disconnect(props, Net, u, v, draw))
    /\ calls' = calls + 1
    /\ UNCHANGED << props, nodes, attribute_space, types, resistance, pc >>

\* reveal( u, v, k ) called from outside
RevealCall(u, v, k) ==
    /\ pc.phase = "idle"
    /\ calls < MaxCalls
    /\ masks' = Reveal(masks, u, v, k)
    /\ calls' = calls + 1
    /\ UNCHANGED << props, nodes, edges, weights, normalized_weights,
                    attribute_space, types, resistance, pc >>

\* hide( u, v, k ) called from outside
HideCall(u, v, k) ==
    /\ pc.phase = "idle"
    /\ calls < MaxCalls
    /\ masks' = Hide(masks, u, v, k)
    /\ calls' = calls + 1
    /\ UNCHANGED << props, nodes, edges, weights, normalized_weights,
                    attribute_space, types, resistance, pc >>

\* The position after node i of a sweep: the next node, or what follows the sweep.
AfterNode(phase, i, then) ==
    IF i + 1 < props.n THEN [ phase |-> phase, i |-> i + 1 ] ELSE then

\* step(): its call, and its first phase update_attributes
Step ==
    /\ pc.phase = "idle"
    /\ calls < MaxCalls
    /\ calls' = calls + 1
    /\ IF DOMAIN types = {}
       THEN \* props['types'] is the empty list: IndexError
            /\ pc' = Raised
            /\ UNCHANGED attribute_space
       ELSE \E d \in [ UpdateEligible(props, edges, masks, attribute_space,
                                      types, resistance) -> Draws ] :
              /\ attribute_space' = ApplyChanges(props, attribute_space,
                                       { c \in DOMAIN d : d[c] < props.update })
              /\ pc' = [ phase |-> "act", i |-> 0 ]
    /\ UNCHANGED << props, nodes, edges, weights, normalized_weights, masks,
                    types, resistance >>

\* act(): the turn of node pc.i
ActNode ==
    /\ pc.phase = "act"
    /\ LET nbrs == GetNeighbors(edges, props.directed, pc.i)
       IN  \E p1 \in [ nbrs -> Draws ], p2 \in [ nbrs -> Draws ] :
             LET s == ActOn(props, attribute_space, types, Net, pc.i, nbrs, p1, p2)
             IN  /\ SetNet(s)
                 /\ pc' = IF s.raised THEN Raised
                          ELSE AfterNode("act", pc.i,
                                         [ phase |-> "network_effects", i |-> 0 ])
    /\ UNCHANGED << props, nodes, attribute_space, types, resistance, calls >>

\* network_effects(): the turn of node pc.i, when the candidates that pass
\* the draw against props['friend'] are one of the sets FS
NetworkEffectsAmong(FS) ==
    /\ pc.phase = "network_effects"
    /\ \E F \in FS :
         \E w1 \in [ F -> WeightDraws(props) ], w2 \in [ F -> MirrorDraws(props) ] :
           LET s == NetworkEffectsOn(props, attribute_space, Net, pc.i, F, w1, w2)
           IN  /\ SetNet(s)
               /\ pc' = IF s.raised THEN Raised
                        ELSE AfterNode("network_effects", pc.i, Idle)
    /\ UNCHANGED << props, nodes, attribute_space, types, resistance, calls >>

\* network_effects(): the turn of node pc.i
NetworkEffectsNode == NetworkEffectsAmong(FriendSets(props))

Next ==
    \/ \E u, v \in Range(props.n) : ConnectCall(u, v)
    \/ \E u, v \in Range(props.n) : DisconnectCall(u, v)
    \/ \E u, v \in Range(props.n), k \in Range(props.dimensions) : RevealCall(u, v, k)
    \/ \E u, v \in Range(props.n), k \in Range(props.dimensions) : HideCall(u, v, k)
    \/ Step
    \/ ActNode
    \/ NetworkEffectsNode

Spec == Init /\ [][Next]_vars

\* The networks built with unfriend = 1.0, friend = 0.0, unfriend_threshold = 1.0.
InitRewireOut == InitFrom(RewireOutProps)

SpecRewireOut == InitRewireOut /\ [][Next]_vars

\* The four-node complete network whose opinions came out [ +1, -1, +1, -1 ].
InitCompleteFour == InitFrom(CompleteFourProps) /\ attribute_space = AlternatingOpinions

SpecCompleteFour == InitCompleteFour /\ [][Next]_vars

\* The two-node networks with two opinion coordinates.
InitTwoCoordinates == InitFrom(TwoCoordinateProps)

SpecTwoCoordinates == InitTwoCoordinates /\ [][Next]_vars

\* The networks that never rewire.
InitUpdateRule == InitFrom(UpdateRuleProps)

SpecUpdateRule == InitUpdateRule /\ [][Next]_vars

\* The networks that vary the probabilities of rewiring.
InitGate == InitFrom(GateProps)

SpecGate == InitGate /\ [][Next]_vars

\* The runs of step() on the networks of RewireInProps whose opinions came
\* out all +1, in which the candidates a node connects are none, node 0
\* alone, or the nodes 1 .. NumCandidates.
InitRewireIn ==
    /\ InitFrom(RewireInProps)
    /\ attribute_space = [ i \in Range(RewireInNodes) |-> [ k \in Range(1) |-> 1 ] ]

ChosenFriendSets == { {}, { 0 }, 1 .. NumCandidates }

NextRewireIn ==
    \/ Step
    \/ ActNode
    \/ NetworkEffectsAmong(FriendSets(props) \cap ChosenFriendSets)

SpecRewireIn == InitRewireIn /\ [][NextRewireIn]_vars

\* The runs of the networks that never rewire in which every call is step().
NextSteps == Step \/ ActNode \/ NetworkEffectsNode

SpecSteps == InitUpdateRule /\ [][NextSteps]_vars

\* ------------------------------------------------------------ persistence
\* str( b ) of a flag, as _save writes it, and bool( s ) of the string _read
\* finds: true for every string but the empty one.
BoolToString(b) == IF b THEN "True" ELSE "False"
StringToBool(s) == s # ""

RECURSIVE BitsToInt(_, _)
\* int( temp, 2 ), temp the digits of the first m coordinates of a mask row:
\* '0' where the coordinate is 0.0, '1' elsewhere.
BitsToInt(row, m) ==
    IF m = 0 THEN 0
    ELSE 2 * BitsToInt(row, m - 1) + ( IF row[m - 1] = 0 THEN 0 ELSE 1 )

\* encode_mask( masks[i] ): a pair ( j, number ) for every row j that has a
\* nonzero coordinate.
EncodeMask(Mi, n, K) ==
    { << j, BitsToInt(Mi[j], K) >> :
        j \in { x \in Range(n) : \E k \in Range(K) : Mi[x][k] # 0 } }

RECURSIVE DecodeMask(_)
\* decode_mask( mask ): the digits of bin( mask ), which begin at its first 1.
DecodeMask(c) == IF c < 2 THEN << c >> ELSE Append(DecodeMask(c \div 2), c % 2)

\* _save: what the file holds of the network s with properties p.  The Node
\* of i lists get_neighbors( i ) as parents, the encoded masks[i], and
\* weights[i][j] for every parent j.
Save(p, s) ==
    [ directed  |-> BoolToString(p.directed),
      symmetric |-> BoolToString(p.symmetric),
      node |-> [ i \in Range(p.n) |->
                   LET parents == GetNeighbors(s.edges, p.directed, i)
                   IN  [ parents |-> parents,
                         masks   |-> EncodeMask(s.masks[i], p.n, p.dimensions),
                         weights |-> [ j \in parents |-> s.weights[i][j] ] ] ] ]

\* The flags _read leaves in the properties: bool() of the strings in the file.
ReadProps(p, f) ==
    [ p EXCEPT !.directed = StringToBool(f.directed),
               !.symmetric = StringToBool(f.symmetric) ]

\* The masks after _read decoded the pairs of one Node: for the pair
\* ( parent, number ) it writes the coordinates 0 .. len( digits ) - 1 of
\* masks[idx][parent], 0 for a digit 0 and the parent's opinion for a digit 1.
ReadMasks(A, M, idx, enc) ==
    [ M EXCEPT ![idx] =
        [ j \in DOMAIN M[idx] |->
            IF \E c \in enc : c[1] = j
            THEN LET bits == DecodeMask(( CHOOSE c \in enc : c[1] = j )[2])
                 IN  [ k \in DOMAIN M[idx][j] |->
                         IF k < Len(bits)
                         THEN IF bits[k + 1] = 0 THEN 0 ELSE A[j][k]
                         ELSE M[idx][j][k] ]
            ELSE M[idx][j] ] ]

RECURSIVE ReadFrom(_, _, _, _, _)
\* The loop of _read over the Nodes of the file from idx on: add_edge( idx, p )
\* for every parent p, then the masks, then weights[p][idx] and the
\* normalized column of idx.  An empty masks string parses to one empty
\* line, whose line[0] raises IndexError.
ReadFrom(p, A, f, s, idx) ==
    IF idx >= p.n THEN s
    ELSE
      LET nd == f.node[idx]
          E1 == { e \in Range(p.n) \X Range(p.n) :
                    \/ e \in s.edges
                    \/ e[1] = idx /\ e[2] \in nd.parents
                    \/ ~p.directed /\ e[2] = idx /\ e[1] \in nd.parents }
      IN  IF nd.masks = {}
          THEN [ s EXCEPT !.edges = E1, !.raised = TRUE ]
          ELSE
            LET M1 == ReadMasks(A, s.masks, idx, nd.masks)
                W1 == [ x \in Range(p.n) |-> [ y \in Range(p.n) |->
                          IF y = idx /\ x \in nd.parents THEN nd.weights[x]
                          ELSE s.weights[x][y] ] ]
                s1 == UpdateWeightColumn(p,
                        [ edges |-> E1, weights |-> W1,
                          normalized_weights |-> s.normalized_weights,
                          masks |-> M1, raised |-> FALSE ], idx)
            IN  ReadFrom(p, A, f, s1, idx + 1)

\* _read: the networks it can rebuild from the file f.  It initializes the
\* weights and the masks on the graph that has the nodes and no edge yet.
Read(p, A, f) ==
    { ReadFrom(p, A, f,
               [ edges |-> {}, weights |-> w.weights,
                 normalized_weights |-> w.normalized_weights,
                 masks |-> M, raised |-> FALSE ], 0) :
        w \in InitializeEdgeWeights(p, [ nodes |-> Range(p.n), edges |-> {} ]),
        M \in InitializeMasks(p, {}, A) }

\* The position of a network that was read from a file.
Loaded == [ phase |-> "read", i |-> 0 ]

\* _save( file ), then SocialNetwork( { 'file' : file } ): the state becomes
\* the one of the network that was read.  An empty props['types'] is written
\* as '' and read as the list [ '' ].
SaveReadCall ==
    /\ pc.phase = "idle"
    /\ calls < MaxCalls
    /\ LET f  == Save(props, Net)
           pd == ReadProps(props, f)
       IN  \E s \in Read(pd, attribute_space, f) :
             /\ props' = pd
             /\ nodes' = Range(props.n)
             /\ SetNet(s)
             /\ pc' = IF s.raised THEN Raised ELSE Loaded
    /\ types' = IF DOMAIN types = {} THEN [ i \in { 0 } |-> "" ] ELSE types
    /\ calls' = calls + 1
    /\ UNCHANGED << attribute_space, resistance >>

\* The properties dictionaries of small networks with two opinion coordinates.
RoundTripProps ==
    [ n : 1 .. 2, directed : BOOLEAN, symmetric : { FALSE },
      topology : { "complete", "cycle" },
      dimensions : { 2 }, visibility : { "visible", "random" },
      weight : { [ random |-> FALSE, value |-> Scale ] },
      unfriend : { 1 }, friend : { 1 },
      update : { 1 }, unfriend_threshold : { 1 },
      type_dist : { OneType("R") }, resistance_param : { ScalarResistance(0) } ]

InitRoundTrip == InitFrom(RoundTripProps)

NextRoundTrip == Next \/ SaveReadCall

SpecRoundTrip == InitRoundTrip /\ [][NextRoundTrip]_vars

\* ------------------------------------------------------------ properties
\* The network exists: no exception left the constructor or a later call.
Running == pc.phase # "error"

Nodes == Range(props.n)

Neighbors(u) == GetNeighbors(edges, props.directed, u)

RECURSIVE FracSum(_, _, _)
\* The sum of column u of a matrix of quotients over the rows 0..m-1, as a
\* quotient; its denominator is 0 when a summand's is.
FracSum(N, u, m) ==
    IF m = 0 THEN << 0, 1 >>
    ELSE LET rest == FracSum(N, u, m - 1)
             x    == N[m - 1][u]
         IN  << rest[1] * x[2] + x[1] * rest[2], rest[2] * x[2] >>

ColumnSumsToOne(N, u, n) ==
    LET f == FracSum(N, u, n) IN f[2] # 0 /\ f[1] = f[2]

\* C1: in every state reached through construction, connect and disconnect
\* (a == b included), every column of normalized_weights sums to one.
C1_NormalizedColumnsSumToOne ==
    Running => \A u \in Nodes : ColumnSumsToOne(normalized_weights, u, props.n)

\* C2: in every reachable state a node's mask of itself is its own opinion
\* vector: masks[i][i][k] = attribute_space[i][k].
C2_SelfPerception ==
    Running => \A i \in Nodes : \A k \in Range(props.dimensions) :
                  masks[i][i][k] = attribute_space[i][k]

\* The update phase of the first call, a step(), has just ended.
AfterFirstUpdate == calls = 1 /\ pc = [ phase |-> "act", i |-> 0 ]

\* The reward of node i for its neighbour nbr is below the unfriend threshold.
LowReward(i, nbr) ==
    BelowThreshold(props, GetRewardForNeighbor(props, attribute_space, masks,
                                               types, i, nbr))

\* C3: with unfriend = 1.0, friend = 0.0 and unfriend_threshold = 1.0, when
\* the rewire-out phase of a step() has ended no edge ( i, nbr ) with a reward
\* below 1 is left in the graph.
C3_LowRewardEdgesRemoved ==
    ( pc.phase = "network_effects" )
       => \A i \in Nodes : \A nbr \in Neighbors(i) : ~ LowReward(i, nbr)

\* C4: a disconnect( u, v ) on an existing edge always removes it when the
\* unfriend probability is 1.0, and changes nothing when it is 0.0.
C4_DisconnectGate ==
    [][ \A u, v \in Nodes :
          DisconnectCall(u, v) =>
            /\ ( props.unfriend = Scale /\ HasEdge(edges, u, v) )
                  => ~ HasEdge(edges', u, v)
            /\ ( props.unfriend = 0 )
                  => UNCHANGED << edges, weights, normalized_weights, masks >> ]_vars

\* C5 as stated: in the four-node complete network with opinions
\* [ +1, -1, +1, -1 ] the update phase of one step() flips every node, giving
\* [ -1, +1, -1, +1 ].
C5_EveryNodeFlips ==
    AfterFirstUpdate => attribute_space = FlippedOpinions

\* C5 amended: in that network the update phase of one step() flips no node.
\* Every local average is taken over the node's own row as well, so it is
\* 0 / 4, whose magnitude does not exceed the resistance 0.
C5_NoNodeFlips ==
    AfterFirstUpdate => attribute_space = AlternatingOpinions

\* C5 happens: the update phase of the first step() has ended on the opinions
\* it started from, every local average having been 0.
C5_UpdatePhaseRan ==
    /\ AfterFirstUpdate
    /\ attribute_space = AlternatingOpinions
    /\ \A i \in Nodes : GetLocalAverage(props, edges, masks, i)[0][1] = 0

\* C6: with a nonzero configured weight, every edge of the graph has a
\* nonzero raw weight: weights[v][u] # 0 for every v of get_neighbors( u ).
C6_EdgesHaveWeight ==
    ( Running /\ ~ props.weight.random /\ props.weight.value # 0 )
       => \A u \in Nodes : \A v \in Neighbors(u) : weights[v][u] # 0

\* C7: for every observer u, neighbour v of u and coordinate k, masks[u][v][k]
\* is 0 or the current true value attribute_space[v][k].
C7_MaskValueDomain ==
    Running => \A u \in Nodes : \A v \in Neighbors(u) : \A k \in Range(props.dimensions) :
                  masks[u][v][k] \in { 0, attribute_space[v][k] }

\* C8: reveal( u, v, k ) sets masks[v][u][k] to the true value
\* attribute_space[u][k] and changes no other entry of any structure.
C8_RevealSetsTrueValue ==
    [][ \A u, v \in Nodes : \A k \in Range(props.dimensions) :
          RevealCall(u, v, k) =>
            /\ masks'[v][u][k] = attribute_space[u][k]
            /\ \A i, j \in Nodes : \A l \in Range(props.dimensions) :
                  ( << i, j, l >> # << v, u, k >> ) => masks'[i][j][l] = masks[i][j][l]
            /\ UNCHANGED << edges, weights, normalized_weights, attribute_space >> ]_vars

\* C9: in every reachable state the self-weight weights[u][u] is 1 and the
\* total update_weight_column divides by is not zero.
C9_SelfWeightPresent ==
    Running => \A u \in Nodes :
                  /\ weights[u][u] = Scale
                  /\ SumColumn(weights, u, props.n) > 0
                  /\ normalized_weights[u][u][2] # 0

\* C10: for every topology family the graph's node set is exactly 0..n-1 and
\* every edge has both endpoints in that range.
C10_NodeSetFixed ==
    ( props.topology \in TOPOLOGIES )
       => /\ nodes = Nodes
          /\ \A e \in edges : e[1] \in Nodes /\ e[2] \in Nodes

\* The constructor returned: a network exists, whatever its later calls raised.
Constructed == ~ ( pc.phase = "error" /\ calls = 0 )

\* C11: in every reachable state no node is in its own get_neighbors set:
\* the generators return no edge ( a, a ) and connect( u, u ) adds none.
C11_NoSelfLoop ==
    Running => \A u \in Nodes : u \notin Neighbors(u)

\* C12: when the symmetric flag is set, edge ( a, b ) is in the graph if and
\* only if edge ( b, a ) is, in every state of a constructed network.
C12_SymmetricEdges ==
    ( Constructed /\ props.symmetric )
       => \A e \in edges : << e[2], e[1] >> \in edges

\* C13: after construction the index lists of indexes_by_type partition the
\* node indices: every node 0..n-1 is in exactly one list, the list of its
\* own archetype types[i].
C13_ArchetypePartition ==
    Running =>
      LET idx == IndexesByType(props, types)
      IN  \A i \in Nodes :
            /\ Cardinality({ t \in DOMAIN idx : i \in idx[t] }) = 1
            /\ \A t \in DOMAIN idx : ( i \in idx[t] ) => ( types[i] = t )

\* The reward of node u for node v in the current state.
Reward(u, v) == GetRewardForNeighbor(props, attribute_space, masks, types, u, v)

\* No coordinate of v is visible to u.
AllHidden(u, v) == \A k \in Range(props.dimensions) : masks[u][v][k] = 0

\* C14: for every node u of a defined archetype and every node v, the reward
\* get_reward_for_neighbor( u, v ) is a value in [0,1], and it is exactly 0
\* when every coordinate of masks[u][v] is 0.
C14_RewardRange ==
    Running => \A u \in Nodes : \A v \in Nodes :
      ( u \in DOMAIN types /\ types[u] \in FamilyA \cup FamilyB )
         => /\ ~ Reward(u, v).none
            /\ Reward(u, v).den > 0
            /\ 0 <= Reward(u, v).num
            /\ Reward(u, v).num <= Reward(u, v).den
            /\ AllHidden(u, v) => Reward(u, v).num = 0

\* C14 happens: one node sees nothing of the other and has reward 0 for it,
\* while the other sees both coordinates and has a reward strictly between
\* 0 and 1.
C14_RewardsSpread ==
    /\ Running
    /\ \E u \in Nodes : \E v \in Nodes \ { u } :
          /\ AllHidden(u, v) /\ Reward(u, v).num = 0
          /\ ~ AllHidden(v, u)
          /\ 0 < Reward(v, u).num /\ Reward(v, u).num < Reward(v, u).den

\* C15: in every reachable state a node u without neighbours has
\* get_reward_for_node( u ) = 0 and a get_local_average( u ) equal to its own
\* current opinion vector attribute_space[u].
C15_IsolatedNode ==
    Running => \A u \in Nodes :
      ( Neighbors(u) = {} )
         => /\ GetRewardForNode(props, edges, attribute_space, masks, types, u)[1] = 0
            /\ \A k \in Range(props.dimensions) :
                  LET avg == GetLocalAverage(props, edges, masks, u)[k]
                  IN  avg[1] = attribute_space[u][k] * avg[2]

\* C16: after initialize_resistance, for every form of resistance_param,
\* every node's resistance lies in [0,1].
C16_ResistanceRange ==
    Running => \A i \in Nodes : 0 <= resistance[i] /\ resistance[i] <= Scale

\* C17: with an unknown topology tag construction completes, with a graph
\* of n nodes and no edges and with weights, opinions, masks, archetypes and
\* resistance initialised.
C17_UnknownTopologyNotFatal ==
    ( props.topology \notin TOPOLOGIES )
       => /\ Running
          /\ nodes = Nodes
          /\ edges = {}
          /\ DOMAIN weights = Nodes
          /\ DOMAIN attribute_space = Nodes
          /\ DOMAIN masks = Nodes
          /\ DOMAIN resistance = Nodes

\* C18: for distinct nodes u and v, a disconnect( u, v ) called when edge
\* u->v is not in the graph (the reverse edge v->u may be) leaves the graph,
\* the raw weights, the normalized weights and the masks unchanged.
C18_DisconnectAbsentEdge ==
    [][ \A u, v \in Nodes :
          ( u # v /\ DisconnectCall(u, v) /\ ~ HasEdge(edges, u, v) )
             => UNCHANGED << edges, weights, normalized_weights, masks >> ]_vars

\* C19: on a constructed network no phase of a step() raises an error.
C19_StepNeverRaises ==
    [][ ( Step \/ ActNode \/ NetworkEffectsNode ) => pc'.phase # "error" ]_vars

\* C20: hide( u, v, k ) leaves masks[v][u][k] = 0 and every other mask,
\* weight, opinion and edge unchanged, and a second hide( u, v, k ) produces
\* exactly the state the first one did.
C20_HideIdempotent ==
    [][ \A u, v \in Nodes : \A k \in Range(props.dimensions) :
          HideCall(u, v, k) =>
            /\ masks'[v][u][k] = 0
            /\ \A i, j \in Nodes : \A l \in Range(props.dimensions) :
                  ( << i, j, l >> # << v, u, k >> ) => masks'[i][j][l] = masks[i][j][l]
            /\ UNCHANGED << edges, weights, normalized_weights, attribute_space >>
            /\ Hide(masks', u, v, k) = masks' ]_vars

\* C20 happens: after two calls on a complete network built visible, one entry
\* masks[v][u][k] of an edge is hidden, hiding it again changes nothing, and
\* every other mask entry still shows what construction wrote.
C20_HiddenTwice ==
    /\ pc.phase = "idle" /\ calls = 2
    /\ props.visibility = "visible" /\ props.topology = "complete"
    /\ \E u, v \in Nodes : \E k \in Range(props.dimensions) :
          /\ u # v /\ HasEdge(edges, u, v)
          /\ masks[v][u][k] = 0
          /\ attribute_space[u][k] # 0
          /\ Hide(masks, u, v, k) = masks
          /\ \A i, j \in Nodes : \A l \in Range(props.dimensions) :
                ( << i, j, l >> # << v, u, k >> /\ ( i = j \/ j \in Neighbors(i) ) )
                   => masks[i][j][l] = attribute_space[j][l]

\* C21: exporting a network with _save and importing it with _read gives
\* back the same directedness flag, the same edge set, the same raw weight on
\* every edge and the same mask tensor.
C21_RoundTrip ==
    [][ SaveReadCall =>
          /\ pc'.phase # "error"
          /\ props'.directed = props.directed
          /\ edges' = edges
          /\ \A e \in edges : weights'[e[1]][e[2]] = weights[e[1]][e[2]]
          /\ masks' = masks ]_vars

\* C22: every coordinate of every opinion vector is +1 or -1 in every state
\* of a constructed network, and the update phase of a step appends each
\* ( node, coordinate ) pair at most once, so it negates the coordinate once
\* or leaves it.
C22_OpinionDomain ==
    /\ [] ( Constructed =>
              \A i \in DOMAIN attribute_space : \A k \in DOMAIN attribute_space[i] :
                 attribute_space[i][k] \in { -1, 1 } )
    /\ [][ ( Step /\ pc'.phase = "act" ) =>
             \A i \in Nodes : \A k \in Range(props.dimensions) :
               LET a == Appends(props, edges, masks, attribute_space, types,
                                resistance, i, k)
               IN  /\ a <= 1
                   /\ attribute_space'[i][k] \in { attribute_space[i][k],
                                                   - attribute_space[i][k] }
                   /\ ( attribute_space'[i][k] # attribute_space[i][k] ) => a = 1 ]_vars

\* C22 happens: the update phase of a step has run and negated a coordinate,
\* which the node's own mask row still shows as it was built.
C22_CoordinateFlipped ==
    /\ pc.phase = "act"
    /\ \E i \in Nodes : \E k \in Range(props.dimensions) :
          /\ attribute_space[i][k] \in { -1, 1 }
          /\ masks[i][i][k] = - attribute_space[i][k]

\* C23: in a network just built with visibility 'visible', for every node j
\* and every node i of get_neighbors( j ), masks[j][i] equals
\* attribute_space[i].
C23_MaskDirection ==
    ( Running /\ calls = 0 /\ props.visibility = "visible" ) =>
      \A j \in Nodes : \A i \in Neighbors(j) :
         masks[j][i] = attribute_space[i]

\* range( n ) as the order of the sweep in update_attributes.
Ascending == [ x \in 1 .. props.n |-> x - 1 ]

\* C24: the update phase decides every flip from the state at its start and
\* applies the flips after the sweep, so for fixed draws the opinions it
\* leaves are the same for every order of visiting the nodes.
C24_SimultaneousUpdate ==
    [][ ( Step /\ pc'.phase = "act" ) =>
          /\ \E pass \in SUBSET ( Nodes \X Range(props.dimensions) ) :
               attribute_space' = UpdateAttributesIn(props, edges, masks, attribute_space,
                                                     types, resistance, Ascending, pass)
          /\ \A pass \in SUBSET ( Nodes \X Range(props.dimensions) ) :
               \A order \in Orders(Nodes) :
                  UpdateAttributesIn(props, edges, masks, attribute_space,
                                     types, resistance, order, pass)
                  = UpdateAttributesIn(props, edges, masks, attribute_space,
                                       types, resistance, Ascending, pass) ]_vars

\* C24 happens: one update phase has negated a coordinate of every node of a
\* network of two nodes or more.
C24_EveryNodeChanged ==
    /\ pc.phase = "act" /\ calls = 1
    /\ props.n >= 2
    /\ \A i \in Nodes : \E k \in Range(props.dimensions) :
          masks[i][i][k] = - attribute_space[i][k]

\* C25: with update probability 1.0 a Family A node flips coordinate k
\* exactly when opinion * average <= 0 and |average| > resistance, a Family B
\* node exactly when opinion * average >= 0 and |average| > resistance, and a
\* node of neither family never flips.
C25_UpdateRule ==
    [][ ( Step /\ pc'.phase = "act" /\ props.update = Scale ) =>
          \A i \in Nodes : \A k \in Range(props.dimensions) :
            LET a     == GetLocalAverage(props, edges, masks, i)[k]
                above == Abs(a[1]) * Scale > resistance[i] * a[2]
                flips == attribute_space'[i][k] = - attribute_space[i][k]
                same  == attribute_space'[i][k] = attribute_space[i][k]
            IN  /\ flips \/ same
                /\ types[i] \in FamilyA =>
                     ( flips <=> ( attribute_space[i][k] * a[1] <= 0 /\ above ) )
                /\ types[i] \in FamilyB =>
                     ( flips <=> ( attribute_space[i][k] * a[1] >= 0 /\ above ) )
                /\ types[i] \notin FamilyA \cup FamilyB => same ]_vars

\* C25 happens: with update probability 1.0 one update phase has flipped a
\* Family B node whose resistance is above 0.
C25_ResistingNodeFlipped ==
    /\ pc.phase = "act" /\ calls = 1
    /\ props.update = Scale
    /\ \E i \in Nodes : \E k \in Range(props.dimensions) :
          /\ types[i] \in FamilyB
          /\ resistance[i] > 0
          /\ masks[i][i][k] = - attribute_space[i][k]

\* C26: in every state connect, disconnect and step() reach, for every pair
\* ( v, u ), normalized_weights[v][u] is weights[v][u] divided by the sum of
\* column u of weights, and 0 where weights[v][u] is 0.
C26_NormalizedMatchesRaw ==
    ( Running /\ pc.phase = "idle" ) =>
      \A v, u \in Nodes :
        LET total == SumColumn(weights, u, props.n)
            q     == normalized_weights[v][u]
        IN  IF weights[v][u] = 0 THEN q[1] = 0
            ELSE q[2] # 0 /\ q[1] * total = weights[v][u] * q[2]

\* Column c of normalized_weights is what update_weight_column( c ) leaves
\* for the weights W and the edges E.
ColumnRecomputed(N, W, E, c) ==
    LET total == SumColumn(W, c, props.n)
    IN  \A x \in Nodes :
          N[x][c] = IF x = c THEN << Scale, total >>
                    ELSE IF x \in GetNeighbors(E, props.directed, c)
                         THEN << W[x][c], total >>
                         ELSE ZeroFrac

\* C27: when disconnect( u, v ) passes its gate on an existing edge, then
\* afterwards the edge u->v (and v->u when symmetric) is absent, both mask
\* rows and both weights between u and v are 0, the normalized columns of u
\* and v are recomputed, and nothing that involves a third node has changed.
C27_DisconnectEffect ==
    [][ \A u, v \in Nodes :
          ( /\ pc.phase = "idle" /\ calls' = calls + 1
            /\ HasEdge(edges, u, v)
            /\ \E draw \in Draws :
                 /\ ~ ( draw < props.unfriend )
                 /\ Net' = Disconnect(props, Net, u, v, draw)
            /\ DisconnectCall(u, v) )
          =>
          /\ ~ HasEdge(edges', u, v)
          /\ props.symmetric => ~ HasEdge(edges', v, u)
          /\ \A k \in Range(props.dimensions) :
               masks'[u][v][k] = 0 /\ masks'[v][u][k] = 0
          /\ weights'[u][v] = 0 /\ weights'[v][u] = 0
          /\ ColumnRecomputed(normalized_weights', weights', edges', u)
          /\ ColumnRecomputed(normalized_weights', weights', edges', v)
          /\ \A i, j \in Nodes :
               ( i \notin { u, v } \/ j \notin { u, v } ) =>
                 /\ HasEdge(edges', i, j) <=> HasEdge(edges, i, j)
                 /\ weights'[i][j] = weights[i][j]
                 /\ masks'[i][j] = masks[i][j]
          /\ \A x, c \in Nodes :
               c \notin { u, v } => normalized_weights'[x][c] = normalized_weights[x][c]
      ]_vars

\* C27 happens: one call of disconnect has removed an edge of a network built
\* complete on three nodes, and the other edges are in place.
C27_EdgeRemoved ==
    /\ pc.phase = "idle" /\ calls = 1
    /\ props.topology = "complete" /\ props.n = 3
    /\ \E u, v \in Nodes :
          /\ u # v
          /\ ~ HasEdge(edges, u, v)
          /\ weights[u][v] = 0 /\ weights[v][u] = 0
          /\ \A i, j \in Nodes :
               ( i # j /\ ( i \notin { u, v } \/ j \notin { u, v } ) ) =>
                 ( HasEdge(edges, i, j) \/ HasEdge(edges, j, i) )

\* C28: connect( u, v ) with visibility 'random' completes: it adds the edge,
\* sets every masks[v][u][k] to 0 or to attribute_space[u][k], and recomputes
\* the normalized columns of u and v.
C28_ConnectRandomVisibility ==
    [][ \A u, v \in Nodes :
          ( u # v /\ props.visibility = "random" /\ ConnectCall(u, v) ) =>
            /\ pc'.phase # "error"
            /\ HasEdge(edges', u, v)
            /\ \A k \in Range(props.dimensions) :
                 masks'[v][u][k] \in { 0, attribute_space[u][k] }
            /\ ColumnRecomputed(normalized_weights', weights', edges', u)
            /\ ColumnRecomputed(normalized_weights', weights', edges', v) ]_vars

\* The edges that target node i.
Incoming(E, i) == { e \in E : e[2] = i }

\* C29 as stated: one rewire-in phase adds at most 5 edges targeting each
\* node.  In a network built without an edge, every edge present during the
\* first step() was added by its rewire-in phase.
C29_AtMostFiveIncomingPerPhase ==
    ( props.topology = "" /\ calls <= 1 ) =>
      \A i \in Nodes : Cardinality(Incoming(edges, i)) <= NumCandidates

\* C29, amended: in the turn of node i of the rewire-in phase every new edge
\* joins i and a node of 0..n-1 other than i, at most 5 new edges target i,
\* an edge leaving i is added only in a symmetric or undirected network, and
\* with friend probability 0 the graph, the weights and the masks stay as
\* they are.
C29_RewireInTurn ==
    [][ ( pc.phase = "network_effects" ) =>
          LET new == edges' \ edges
          IN  /\ \A e \in new :
                   /\ e[1] \in Nodes /\ e[2] \in Nodes /\ e[1] # e[2]
                   /\ \/ e[2] = pc.i
                      \/ e[1] = pc.i /\ ( props.symmetric \/ ~ props.directed )
              /\ Cardinality(Incoming(new, pc.i)) <= NumCandidates
              /\ props.friend = 0 => UNCHANGED << edges, weights, masks >> ]_vars

\* C29 happens: the first rewire-in phase is over and has given node 0 an
\* edge from each of its 5 candidates.
C29_FiveCandidatesConnected ==
    /\ pc.phase = "idle" /\ calls = 1
    /\ \A c \in 1 .. NumCandidates : HasEdge(edges, c, 0)

C31_ConnectDisconnectRoundTrip ==
    ( Running /\ pc.phase = "idle" ) =>
      \A u, v \in Nodes :
        ( u # v /\ ~ HasEdge(edges, u, v) ) =>
          \A w1 \in WeightDraws(props), w2 \in MirrorDraws(props) :
            \A draw \in { d \in Draws : ~ ( d < props.unfriend ) } :
              LET s1 == Connect(props, attribute_space, Net, u, v, w1, w2)
                  s2 == Disconnect(props, s1, u, v, draw)
              IN  /\ ~ s1.raised
                  /\ s2.edges = edges
                  /\ s2.weights = weights
                  /\ s2.normalized_weights = normalized_weights
                  /\ s2.masks = masks

\* C32: after input validation the symmetric flag implies the directed flag,
\* whatever directed value the properties dictionary supplied, and the
\* network is built on a directed graph.
C32_SymmetricImpliesDirected ==
    /\ props.symmetric => props.directed
    /\ \A given \in GateProps :
         given.symmetric => ValidateInput(given).directed

\* C32 happens: a symmetric network was built with edges, each stored in
\* both directions of a directed graph.
C32_SymmetricNetworkBuilt ==
    /\ Running /\ calls = 0
    /\ props.symmetric /\ props.directed
    /\ edges # {}
    /\ \A e \in edges : << e[2], e[1] >> \in edges
    /\ \A u \in Nodes : Neighbors(u) = { e[1] : e \in Incoming(edges, u) }

=============================================================================
